---- MODULE Spec2Model ----
(***************************************************************************)
(* Model of src/main.py: the click-to-move board widget (BoardWidget),     *)
(* the engine session (EngineWrapper) and the main window's handlers.      *)
(*                                                                         *)
(* The rules library (python-chess) is modelled by what the calls used in  *)
(* main.py do: piece_at, is_legal / legal_moves membership, push, pop,     *)
(* copy.  Castling is not generated: no position explored here has both    *)
(* castling rights and a free path between king and rook.                  *)
(* Optional values are sequences: <<>> is None, <<x>> is x.                *)
(***************************************************************************)
EXTENDS Integers, Sequences, FiniteSets, TLC

\* ------------------------------------------------------------------ bounds
\* Longest move history a click may still extend.
MaxPly == 2

\* ------------------------------------------------------- squares and pieces
Squares == 0..63

square(file_, rank_) == rank_ * 8 + file_
square_file(s) == s % 8
square_rank(s) == s \div 8

WhitePieces == {"P", "N", "B", "R", "Q", "K"}
BlackPieces == {"p", "n", "b", "r", "q", "k"}
Empty == "."

\* chess.WHITE / chess.BLACK
WHITE == "white"
BLACK == "black"
Other(color) == IF color = WHITE THEN BLACK ELSE WHITE

ColorOf(p) == IF p \in WhitePieces THEN WHITE ELSE BLACK
PiecesOf(color) == IF color = WHITE THEN WhitePieces ELSE BlackPieces

\* piece type, colour dropped
TypeOf(p) ==
  CASE p \in {"P", "p"} -> "P"
    [] p \in {"N", "n"} -> "N"
    [] p \in {"B", "b"} -> "B"
    [] p \in {"R", "r"} -> "R"
    [] p \in {"Q", "q"} -> "Q"
    [] p \in {"K", "k"} -> "K"

MakePiece(type, color) ==
  IF color = WHITE THEN type
  ELSE CASE type = "P" -> "p" [] type = "N" -> "n" [] type = "B" -> "b"
         [] type = "R" -> "r" [] type = "Q" -> "q" [] type = "K" -> "k"

\* chess.Move(from_square, to_square, promotion=None)
Promotions == {"None", "Q", "R", "B", "N"}
Moves == [from_square : Squares, to_square : Squares, promotion : Promotions]
Move(from, to) == [from_square |-> from, to_square |-> to, promotion |-> "None"]
MovePromo(from, to, promo) == [from_square |-> from, to_square |-> to, promotion |-> promo]

Abs(x) == IF x < 0 THEN -x ELSE x
Sgn(x) == IF x < 0 THEN -1 ELSE IF x > 0 THEN 1 ELSE 0
Max(a, b) == IF a >= b THEN a ELSE b
Min(a, b) == IF a <= b THEN a ELSE b

\* ---------------------------------------------------------------- the rules
\* Every square strictly between a and b (on one line) is empty.
RayClear(pieces, a, b) ==
  LET df == square_file(b) - square_file(a)
      dr == square_rank(b) - square_rank(a)
      n == Max(Abs(df), Abs(dr))
  IN \A i \in 1..(n - 1) :
       pieces[square(square_file(a) + i * Sgn(df), square_rank(a) + i * Sgn(dr))] = Empty

\* The piece on square a attacks square b (Board.attacks_mask).
Attacks(pieces, a, b) ==
  LET p == pieces[a]
      df == square_file(b) - square_file(a)
      dr == square_rank(b) - square_rank(a)
      straight == (df = 0) \/ (dr = 0)
      diagonal == Abs(df) = Abs(dr)
  IN /\ p # Empty
     /\ a # b
     /\ CASE TypeOf(p) = "N" -> {Abs(df), Abs(dr)} = {1, 2}
          [] TypeOf(p) = "K" -> Max(Abs(df), Abs(dr)) = 1
          [] TypeOf(p) = "R" -> straight /\ RayClear(pieces, a, b)
          [] TypeOf(p) = "B" -> diagonal /\ RayClear(pieces, a, b)
          [] TypeOf(p) = "Q" -> (straight \/ diagonal) /\ RayClear(pieces, a, b)
          [] TypeOf(p) = "P" -> Abs(df) = 1 /\ dr = (IF p = "P" THEN 1 ELSE -1)

\* Board.is_attacked_by(color, sq)
is_attacked_by(pieces, color, sq) ==
  \E a \in Squares : pieces[a] \in PiecesOf(color) /\ Attacks(pieces, a, sq)

\* The far rank of a colour, where its pawns promote.
BackRank(color) == IF color = WHITE THEN 7 ELSE 0

\* A pawn move as generate_pseudo_legal_moves yields it: a capture (also en
\* passant), a single or a double push; with a promotion piece exactly when
\* it reaches the far rank.
PawnPseudoLegal(b, m) ==
  LET a == m.from_square
      t == m.to_square
      dir == IF b.turn = WHITE THEN 1 ELSE -1
      df == square_file(t) - square_file(a)
      dr == square_rank(t) - square_rank(a)
      capture == /\ Abs(df) = 1 /\ dr = dir
                 /\ \/ b.pieces[t] \in PiecesOf(Other(b.turn))
                    \/ b.ep_square = <<t>>
      single == df = 0 /\ dr = dir /\ b.pieces[t] = Empty
      double == /\ df = 0 /\ dr = 2 * dir
                /\ square_rank(a) = (IF b.turn = WHITE THEN 1 ELSE 6)
                /\ b.pieces[square(square_file(a), square_rank(a) + dir)] = Empty
                /\ b.pieces[t] = Empty
  IN /\ capture \/ single \/ double
     /\ (m.promotion # "None") <=> (square_rank(t) = BackRank(b.turn))

\* Board.is_pseudo_legal(move)
is_pseudo_legal(b, m) ==
  LET p == b.pieces[m.from_square]
  IN /\ p \in PiecesOf(b.turn)
     /\ (m.promotion # "None") =>
          (TypeOf(p) = "P" /\ square_rank(m.to_square) = BackRank(b.turn))
     /\ b.pieces[m.to_square] \notin PiecesOf(b.turn)
     /\ IF TypeOf(p) = "P" THEN PawnPseudoLegal(b, m)
        ELSE Attacks(b.pieces, m.from_square, m.to_square)

\* The piece placement after the move (the board part of Board.push).
Moved(b, m) ==
  LET p == b.pieces[m.from_square]
      ep_capture == TypeOf(p) = "P" /\ b.ep_square = <<m.to_square>>
                    /\ b.pieces[m.to_square] = Empty
      victim == square(square_file(m.to_square), square_rank(m.from_square))
      placed == IF m.promotion = "None" THEN p ELSE MakePiece(m.promotion, b.turn)
  IN [s \in Squares |->
        IF s = m.to_square THEN placed
        ELSE IF s = m.from_square THEN Empty
        ELSE IF ep_capture /\ s = victim THEN Empty
        ELSE b.pieces[s]]

\* The mover's king is not left attacked (Board.is_into_check, negated).
KingSafeAfter(b, m) ==
  LET after == Moved(b, m)
  IN \A k \in Squares :
       after[k] = MakePiece("K", b.turn) => ~is_attacked_by(after, Other(b.turn), k)

\* Board.is_legal(move); also `move in board.legal_moves`.
is_legal(b, m) == is_pseudo_legal(b, m) /\ KingSafeAfter(b, m)

\* board.generate_legal_moves(); `move in` it compares from, to and promotion.
generate_legal_moves(b) == {m \in Moves : is_legal(b, m)}

\* board.legal_moves
legal_moves(b) == {m \in Moves : is_legal(b, m)}

\* The part of a board that push saves and pop restores (Board._stack).
BoardState(b) == [pieces |-> b.pieces, turn |-> b.turn, ep_square |-> b.ep_square]

\* Board.push(move): no legality check of its own.
push(b, m) ==
  LET p == b.pieces[m.from_square]
      double == TypeOf(p) = "P" /\ Abs(square_rank(m.to_square) - square_rank(m.from_square)) = 2
  IN [pieces |-> Moved(b, m),
      turn |-> Other(b.turn),
      ep_square |-> IF double
                    THEN <<square(square_file(m.from_square),
                                  (square_rank(m.from_square) + square_rank(m.to_square)) \div 2)>>
                    ELSE <<>>,
      move_stack |-> Append(b.move_stack, m),
      stack |-> Append(b.stack, BoardState(b))]

\* pop that takes the move back but leaves the side to move as it is.
popKeepsTurn(b) ==
  LET n == Len(b.stack)
  IN [pieces |-> b.stack[n].pieces,
      turn |-> b.turn,
      ep_square |-> b.stack[n].ep_square,
      move_stack |-> SubSeq(b.move_stack, 1, Len(b.move_stack) - 1),
      stack |-> SubSeq(b.stack, 1, n - 1)]

\* Board.pop(): restores the saved state and drops the last move.
pop(b) ==
  LET n == Len(b.stack)
  IN [pieces |-> b.stack[n].pieces,
      turn |-> b.stack[n].turn,
      ep_square |-> b.stack[n].ep_square,
      move_stack |-> SubSeq(b.move_stack, 1, Len(b.move_stack) - 1),
      stack |-> SubSeq(b.stack, 1, n - 1)]

\* board.piece_at(sq): <<>> for an empty square
piece_at(b, sq) == IF b.pieces[sq] = Empty THEN <<>> ELSE <<b.pieces[sq]>>

\* ------------------------------------------------------------- positions
StartRank == <<"R", "N", "B", "Q", "K", "B", "N", "R">>

\* chess.Board(): the standard starting position, empty history.
StartPieces ==
  [s \in Squares |->
     CASE square_rank(s) = 0 -> StartRank[square_file(s) + 1]
       [] square_rank(s) = 1 -> "P"
       [] square_rank(s) = 6 -> "p"
       [] square_rank(s) = 7 -> MakePiece(StartRank[square_file(s) + 1], BLACK)
       [] OTHER -> Empty]

NewBoard(pieces, turn) ==
  [pieces |-> pieces, turn |-> turn, ep_square |-> <<>>, move_stack |-> <<>>, stack |-> <<>>]

StandardBoard == NewBoard(StartPieces, WHITE)

\* A PGN file as chess.pgn.read_game sees it: the set-up position of its
\* headers (FEN, or the standard one) and the moves of its main line.  The
\* third file reads '1. e4 Ke7': its second move is illegal.
PromoPieces ==
  [s \in Squares |->
     CASE s = square(4, 0) -> "K"
       [] s = square(4, 6) -> "P"
       [] s = square(3, 5) -> "k"
       [] s = square(3, 7) -> "n"
       [] s = square(4, 2) -> "p"
       [] OTHER -> Empty]

PgnFiles ==
  { [readable |-> TRUE, game |-> <<[setup |-> NewBoard(PromoPieces, WHITE), moves |-> <<>>]>>],
    [readable |-> TRUE, game |-> <<[setup |-> StandardBoard,
                                    moves |-> <<Move(square(4, 1), square(4, 3))>>]>>],
    [readable |-> TRUE, game |-> <<[setup |-> StandardBoard,
                                    moves |-> <<Move(square(4, 1), square(4, 3)),
                                                Move(square(4, 7), square(4, 6))>>]>>],
    [readable |-> TRUE, game |-> <<>>],
    [readable |-> FALSE, game |-> <<>>] }

\* -------------------------------------------------------------- the inputs
\* Squares a click can land on (the results of _square_at): the d and e files.
ClickFiles == {3, 4}
ClickSquares == {s \in Squares : square_file(s) \in ClickFiles}

\* Moves the engine may answer with, among the legal ones: along the e file.
EngineSquares == {s \in Squares : square_file(s) = 4}
EngineMoves == [from_square : EngineSquares, to_square : EngineSquares, promotion : {"None", "Q"}]

\* Executables on this machine; what shutil.which / os.path.exists accept.
EnginePaths == {"sfA", "sfB"}
\* Texts typed into the engine path dialog.
PathTexts == {"", "sfB", "bogus"}
\* engine_path values of the settings file ("None": no file, or no such key).
LoadedPaths == {"None", "missing"}
\* engine_time_ms values of the settings file.
LoadedTimes == {20, 1000, 20000}
\* Contents of the time field when editing finishes: <<>> is not a number.
TimeTexts == {<<>>, <<10>>, <<500>>}

\* ---------------------------------------------------------------- the state
VARIABLES
  board,             \* BoardWidget.board
  selected_square,   \* BoardWidget.selected_square
  square_highlight,  \* BoardWidget.square_highlight
  last_user_move,    \* BoardWidget.last_user_move
  last_engine_move,  \* BoardWidget.last_engine_move
  status,            \* MainWindow.status text
  time_edit,         \* MainWindow.time_edit text
  engine_cfg,        \* MainWindow.engine_cfg = EngineWrapper.config
  engine,            \* EngineWrapper._engine: <<>> or <<path it was launched from>>
  auto_detect,       \* what EngineConfig.auto_detect() finds on this machine
  pc,                \* "idle", or "query" while engine.play is blocking
  query,             \* the request engine.play is serving: board, limit, the
                     \* subprocess, and the configuration changes made before it
  emitted,           \* movePlayed events of the latest handler
  raised,            \* the exception that escaped a handler ("None": none); no
                     \* handler catches it, and PyQt ends the application on an
                     \* exception that leaves a slot: no handler runs after it
  lastOp,            \* the latest handler: <<name>>; a click that committed a
                     \* move is <<"commit">>, one that cancelled the selection
                     \* <<"cancel">>; <<"reply", kind>> is the end of on_user_move
  launched,          \* the latest handler launched a subprocess
  dialog,            \* the message box the latest handler showed ("None": none)
  config_phase,      \* the configuration changes since the latest best_move call:
                     \* "none", "time", "path", or "path,time" (path, then time)
  ctx                \* the latest commit, until another handler than undo runs:
                     \* the board before it, and whether undo has followed

vars == <<board, selected_square, square_highlight, last_user_move, last_engine_move,
          status, time_edit, engine_cfg, engine, auto_detect, pc, query,
          emitted, raised, lastOp, launched, dialog, config_phase, ctx>>

widget == <<board, selected_square, square_highlight, last_user_move, last_engine_move>>
session == <<engine_cfg, engine, auto_detect>>

\* ------------------------------------------------------------ EngineWrapper
\* chess.engine.Limit(time=max(0.05, limit_time_ms / 1000.0)), in milliseconds
Limit(limit_time_ms) == Max(50, limit_time_ms)

\* EngineWrapper.start: the handle afterwards, the exception raised, and
\* whether a subprocess was launched.  popen_uci fails on a path that is no
\* engine executable.
start(e, cfg, detected) ==
  IF e # <<>> THEN [engine |-> e, raised |-> "None", launched |-> FALSE]
  ELSE LET path == IF cfg.path # "None" THEN cfg.path ELSE detected
       IN IF path = "None"
          THEN [engine |-> e, raised |-> "FileNotFoundError", launched |-> FALSE]
          ELSE IF path \notin EnginePaths
          THEN [engine |-> e, raised |-> "popen_uci failed", launched |-> FALSE]
          ELSE [engine |-> <<path>>, raised |-> "None", launched |-> TRUE]

\* stop without the handle being cleared (a path change that keeps the
\* running subprocess).
stopKeepsHandle(e, quit_ok) == [engine |-> e, raised |-> "None"]

\* stop without its finally clause: a failing quit() leaves the handle.
stopNoFinally(e, quit_ok) ==
  IF e # <<>>
  THEN IF quit_ok THEN [engine |-> <<>>, raised |-> "None"]
       ELSE [engine |-> e, raised |-> "quit failed"]
  ELSE [engine |-> e, raised |-> "None"]

\* EngineWrapper.stop: quit() may fail; the handle is cleared all the same.
stop(e, quit_ok) ==
  IF e # <<>>
  THEN [engine |-> <<>>, raised |-> IF quit_ok THEN "None" ELSE "quit failed"]
  ELSE [engine |-> e, raised |-> "None"]

\* on_user_move up to the blocking engine.play call inside best_move.
\* start() is outside best_move's try block: what it raises leaves best_move
\* and on_user_move.  With no handle after start(), best_move returns None.
OnUserMoveCall(b) ==
  LET s == start(engine, engine_cfg, auto_detect)
  IN /\ engine' = s.engine
     /\ launched' = s.launched
     /\ raised' = s.raised
     /\ config_phase' = "none"
     /\ IF s.raised # "None"
        THEN pc' = "idle" /\ query' = <<>> /\ status' = status
        ELSE IF s.engine = <<>>
        THEN pc' = "idle" /\ query' = <<>> /\ status' = <<"Engine unavailable.">>
        ELSE /\ pc' = "query"
             /\ query' = <<[board |-> b, limit |-> Limit(engine_cfg.limit_time_ms),
                            path |-> s.engine[1], after |-> config_phase]>>
             /\ status' = status

\* What engine.play(b, limit) ends with: a legal move for the board it was
\* given, EngineTerminatedError, or another exception ("error"; a result
\* without a move leaves best_move the same way, with None and the handle kept).
PlayResults(b) ==
  {[kind |-> "move", move |-> <<m>>] : m \in {x \in EngineMoves : is_legal(b, x)}}
    \cup {[kind |-> "terminated", move |-> <<>>], [kind |-> "error", move |-> <<>>]}

\* best_move that keeps the handle of a terminated subprocess.
BestMoveReturnKeepsHandle(e, r) == [engine |-> e, move |-> r.move]

\* EngineWrapper.best_move from the return of engine.play on: the handle
\* afterwards and the value returned.
BestMoveReturn(e, r) ==
  CASE r.kind = "move" -> [engine |-> e, move |-> r.move]
    [] r.kind = "terminated" -> [engine |-> <<>>, move |-> <<>>]
    [] OTHER -> [engine |-> e, move |-> <<>>]

\* -------------------------------------------------------------- BoardWidget
\* mousePressEvent, lines 247-254: the move a second click stands for.
CandidateMove(b, origin, sq) ==
  LET move == Move(origin, sq)
      src_piece == piece_at(b, origin)
  IN IF /\ move \in generate_legal_moves(b)
        /\ src_piece # <<>> /\ TypeOf(src_piece[1]) = "P"
        /\ square_rank(sq) \in {0, 7}
        /\ move.promotion = "None"
     THEN MovePromo(origin, sq, "Q")
     ELSE move

\* mousePressEvent, lines 247-255: the move a second click commits, <<>> when
\* the candidate is not legal.
ClickedMove(b, origin, sq) ==
  LET move == CandidateMove(b, origin, sq)
  IN IF move \in legal_moves(b) THEN <<move>> ELSE <<>>

\* The colour test left out: any piece counts.
AnyPiece(b, sq) == piece_at(b, sq) # <<>>

\* The square holds a piece of the side to move.
OwnPiece(b, sq) == piece_at(b, sq) # <<>> /\ ColorOf(piece_at(b, sq)[1]) = b.turn

\* The selection a click that commits nothing leaves (lines 242-244, 258-262).
Reselected(b, sq) == IF OwnPiece(b, sq) THEN <<sq>> ELSE <<>>

\* _apply_user_move that leaves the selection in place.
ApplyUserMoveKeepsSelection(move) ==
  /\ board' = push(board, move)
  /\ last_user_move' = <<move>>
  /\ selected_square' = selected_square
  /\ square_highlight' = <<move.to_square>>
  /\ emitted' = <<move>>
  /\ ctx' = <<[pre |-> board, undone |-> FALSE]>>
  /\ OnUserMoveCall(push(board, move))
  /\ UNCHANGED last_engine_move

\* _apply_user_move that unsets the hint instead of moving it.
ApplyUserMoveClearsHint(move) ==
  /\ board' = push(board, move)
  /\ last_user_move' = <<move>>
  /\ selected_square' = <<>>
  /\ square_highlight' = <<>>
  /\ emitted' = <<move>>
  /\ ctx' = <<[pre |-> board, undone |-> FALSE]>>
  /\ OnUserMoveCall(push(board, move))
  /\ UNCHANGED last_engine_move

\* _apply_user_move that emits movePlayed before the push: the query carries
\* the position of before the move.
ApplyUserMoveEmitsFirst(move) ==
  /\ board' = push(board, move)
  /\ last_user_move' = <<move>>
  /\ selected_square' = <<>>
  /\ square_highlight' = <<move.to_square>>
  /\ emitted' = <<move>>
  /\ ctx' = <<[pre |-> board, undone |-> FALSE]>>
  /\ OnUserMoveCall(board)
  /\ UNCHANGED last_engine_move

\* _apply_user_move: push, markers, then the movePlayed signal, whose slot
\* on_user_move runs at once and blocks in best_move.
ApplyUserMove(move) ==
  /\ board' = push(board, move)
  /\ last_user_move' = <<move>>
  /\ selected_square' = <<>>
  /\ square_highlight' = <<move.to_square>>
  /\ emitted' = <<move>>
  /\ ctx' = <<[pre |-> board, undone |-> FALSE]>>
  /\ OnUserMoveCall(push(board, move))
  /\ UNCHANGED last_engine_move

\* mousePressEvent delivered while engine.play has not returned (as if the
\* query did not block the event loop).
ClickDuringQuery(sq) ==
  /\ raised = "None" /\ pc \in {"idle", "query"}
  /\ dialog' = "None"
  /\ UNCHANGED <<time_edit, engine_cfg, auto_detect>>
  /\ IF selected_square = <<>>
     THEN /\ selected_square' = Reselected(board, sq)
          /\ lastOp' = <<"click">>
          /\ emitted' = <<>> /\ launched' = FALSE /\ ctx' = <<>>
          /\ UNCHANGED <<board, square_highlight, last_user_move, last_engine_move,
                         status, engine, pc, query, raised, config_phase>>
     ELSE LET move == ClickedMove(board, selected_square[1], sq)
          IN IF move # <<>>
             THEN /\ Len(board.move_stack) < MaxPly
                  /\ ApplyUserMove(move[1])
                  /\ lastOp' = <<"commit">>
             ELSE /\ selected_square' = Reselected(board, sq)
                  /\ lastOp' = IF Reselected(board, sq) # <<>> THEN <<"click">> ELSE <<"cancel">>
                  /\ emitted' = <<>> /\ launched' = FALSE /\ ctx' = <<>>
                  /\ UNCHANGED <<board, square_highlight, last_user_move, last_engine_move,
                                 status, engine, pc, query, raised, config_phase>>

\* mousePressEvent with the left button on square sq.
Click(sq) ==
  /\ pc = "idle" /\ raised = "None"
  /\ dialog' = "None"
  /\ UNCHANGED <<time_edit, engine_cfg, auto_detect>>
  /\ IF selected_square = <<>>
     THEN /\ selected_square' = Reselected(board, sq)
          /\ lastOp' = <<"click">>
          /\ emitted' = <<>> /\ launched' = FALSE /\ ctx' = <<>>
          /\ UNCHANGED <<board, square_highlight, last_user_move, last_engine_move,
                         status, engine, pc, query, raised, config_phase>>
     ELSE LET move == ClickedMove(board, selected_square[1], sq)
          IN IF move # <<>>
             THEN /\ Len(board.move_stack) < MaxPly
                  /\ ApplyUserMove(move[1])
                  /\ lastOp' = <<"commit">>
             ELSE /\ selected_square' = Reselected(board, sq)
                  /\ lastOp' = IF Reselected(board, sq) # <<>> THEN <<"click">> ELSE <<"cancel">>
                  /\ emitted' = <<>> /\ launched' = FALSE /\ ctx' = <<>>
                  /\ UNCHANGED <<board, square_highlight, last_user_move, last_engine_move,
                                 status, engine, pc, query, raised, config_phase>>

\* set_board that leaves the last-human-move marker as it is.
set_boardKeepsLastMove(b) ==
  /\ board' = b
  /\ selected_square' = <<>>
  /\ square_highlight' = <<>>
  /\ last_user_move' = last_user_move
  /\ last_engine_move' = <<>>

\* BoardWidget.set_board(b): a copy with its history; every marker unset.
set_board(b) ==
  /\ board' = b
  /\ selected_square' = <<>>
  /\ square_highlight' = <<>>
  /\ last_user_move' = <<>>
  /\ last_engine_move' = <<>>

\* --------------------------------------------------------------- MainWindow
SideName(color) == IF color = WHITE THEN "White" ELSE "Black"

\* on_user_move that plays the suggestion on the board.
EngineReplyPlays(r) ==
  /\ pc = "query" /\ raised = "None"
  /\ LET ret == BestMoveReturn(engine, r)
     IN /\ engine' = ret.engine
        /\ IF ret.move # <<>>
           THEN /\ last_engine_move' = ret.move
                /\ square_highlight' = <<ret.move[1].to_square>>
                /\ status' = <<"Engine suggests for", SideName(board.turn)>>
                /\ board' = push(board, ret.move[1])
           ELSE /\ status' = <<"Engine unavailable.">>
                /\ UNCHANGED <<last_engine_move, square_highlight, board>>
  /\ pc' = "idle" /\ query' = <<>>
  /\ lastOp' = <<"reply", r.kind>>
  /\ UNCHANGED <<selected_square, last_user_move, time_edit, engine_cfg,
                 auto_detect, emitted, raised, launched, dialog, config_phase, ctx>>

\* on_user_move from the return of best_move on.
EngineReply(r) ==
  /\ pc = "query" /\ raised = "None"
  /\ LET ret == BestMoveReturn(engine, r)
     IN /\ engine' = ret.engine
        /\ IF ret.move # <<>>
           THEN /\ last_engine_move' = ret.move
                /\ square_highlight' = <<ret.move[1].to_square>>
                /\ status' = <<"Engine suggests for", SideName(board.turn)>>
           ELSE /\ status' = <<"Engine unavailable.">>
                /\ UNCHANGED <<last_engine_move, square_highlight>>
  /\ pc' = "idle" /\ query' = <<>>
  /\ lastOp' = <<"reply", r.kind>>
  /\ UNCHANGED <<board, selected_square, last_user_move, time_edit, engine_cfg,
                 auto_detect, emitted, raised, launched, dialog, config_phase, ctx>>

on_new_game ==
  /\ pc = "idle" /\ raised = "None"
  /\ set_board(StandardBoard)
  /\ status' = <<"New initial position.">>
  /\ lastOp' = <<"new_game">>
  /\ emitted' = <<>> /\ launched' = FALSE /\ dialog' = "None" /\ ctx' = <<>>
  /\ UNCHANGED <<time_edit, engine_cfg, engine, auto_detect, pc, query, raised, config_phase>>

on_undo ==
  /\ pc = "idle" /\ raised = "None"
  /\ IF board.move_stack # <<>>
     THEN board' = pop(board) /\ status' = <<"Move undone.">>
     ELSE UNCHANGED <<board, status>>
  /\ ctx' = IF ctx # <<>> /\ ~ctx[1].undone
            THEN <<[ctx[1] EXCEPT !.undone = TRUE]>> ELSE <<>>
  /\ lastOp' = <<"undo">>
  /\ emitted' = <<>> /\ launched' = FALSE /\ dialog' = "None"
  /\ UNCHANGED <<selected_square, square_highlight, last_user_move, last_engine_move,
                 time_edit, engine_cfg, engine, auto_detect, pc, query, raised, config_phase>>

\* The main line read_game builds: it stops at the first move that is not
\* legal where it stands.
RECURSIVE Mainline(_, _)
Mainline(b, moves) ==
  IF moves = <<>> \/ ~is_legal(b, Head(moves)) THEN b
  ELSE Mainline(push(b, Head(moves)), Tail(moves))

\* on_open_pgn with the chosen file; the dialog cancelled is OpenPgnCancel.
on_open_pgn(file) ==
  /\ pc = "idle" /\ raised = "None"
  /\ lastOp' = <<"open_pgn">>
  /\ emitted' = <<>> /\ launched' = FALSE /\ ctx' = <<>>
  /\ UNCHANGED <<time_edit, engine_cfg, engine, auto_detect, pc, query, raised, config_phase>>
  /\ IF ~file.readable
     THEN dialog' = "critical: Read error" /\ UNCHANGED <<widget, status>>
     ELSE IF file.game = <<>>
     THEN dialog' = "warning: Could not read a game" /\ UNCHANGED <<widget, status>>
     ELSE /\ set_board(Mainline(file.game[1].setup, file.game[1].moves))
          /\ status' = <<"PGN loaded. Final position shown.">>
          /\ dialog' = "None"

OpenPgnCancel ==
  /\ pc = "idle" /\ raised = "None"
  /\ lastOp' = <<"open_pgn">>
  /\ emitted' = <<>> /\ launched' = FALSE /\ ctx' = <<>> /\ dialog' = "None"
  /\ UNCHANGED <<widget, status, time_edit, engine_cfg, engine, auto_detect, pc, query, raised,
                 config_phase>>

\* on_time_changed with the text of the time field.
on_time_changed(text) ==
  /\ pc = "idle" /\ raised = "None"
  /\ lastOp' = <<"time_changed">>
  /\ IF text # <<>>
     THEN /\ engine_cfg' = [engine_cfg EXCEPT !.limit_time_ms = Max(50, Min(text[1], 10000))]
          /\ status' = <<"Engine time set to", Max(50, Min(text[1], 10000))>>
          /\ time_edit' = text
          /\ config_phase' = IF config_phase \in {"path", "path,time"} THEN "path,time" ELSE "time"
     ELSE /\ time_edit' = <<engine_cfg.limit_time_ms>>
          /\ UNCHANGED <<engine_cfg, status, config_phase>>
  /\ emitted' = <<>> /\ launched' = FALSE /\ dialog' = "None" /\ ctx' = <<>>
  /\ UNCHANGED <<widget, engine, auto_detect, pc, query, raised>>

\* on_set_engine_path that stores the new path and leaves the session running.
on_set_engine_pathNoStop(ok, text, quit_ok) ==
  /\ pc = "idle" /\ raised = "None"
  /\ lastOp' = <<"set_engine_path">>
  /\ emitted' = <<>> /\ launched' = FALSE /\ ctx' = <<>>
  /\ UNCHANGED <<widget, time_edit, auto_detect, pc, query>>
  /\ IF ~ok
     THEN dialog' = "None" /\ UNCHANGED <<engine_cfg, engine, status, raised, config_phase>>
     ELSE IF text # "" /\ text \notin EnginePaths
     THEN /\ dialog' = "warning: Invalid path"
          /\ UNCHANGED <<engine_cfg, engine, status, raised, config_phase>>
     ELSE /\ engine_cfg' = [engine_cfg EXCEPT !.path = IF text = "" THEN "None" ELSE text]
          /\ status' = <<"Engine path updated.">>
          /\ dialog' = "None"
          /\ config_phase' = "path"
          /\ UNCHANGED <<engine, raised>>

\* on_set_engine_path: the dialog accepted (ok) with text, quit() working or not.
on_set_engine_path(ok, text, quit_ok) ==
  /\ pc = "idle" /\ raised = "None"
  /\ lastOp' = <<"set_engine_path">>
  /\ emitted' = <<>> /\ launched' = FALSE /\ ctx' = <<>>
  /\ UNCHANGED <<widget, time_edit, auto_detect, pc, query>>
  /\ IF ~ok
     THEN dialog' = "None" /\ UNCHANGED <<engine_cfg, engine, status, raised, config_phase>>
     ELSE IF text # "" /\ text \notin EnginePaths
     THEN /\ dialog' = "warning: Invalid path"
          /\ UNCHANGED <<engine_cfg, engine, status, raised, config_phase>>
     ELSE LET s == stop(engine, quit_ok)
          IN /\ engine_cfg' = [engine_cfg EXCEPT !.path = IF text = "" THEN "None" ELSE text]
             /\ engine' = s.engine
             /\ raised' = s.raised
             /\ status' = IF s.raised = "None" THEN <<"Engine path updated.">> ELSE status
             /\ dialog' = "None"
             /\ config_phase' = "path"

\* closeEvent: the session is stopped and the window closes.
closeEvent(quit_ok) ==
  /\ pc = "idle" /\ raised = "None"
  /\ lastOp' = <<"close">>
  /\ LET s == stop(engine, quit_ok)
     IN engine' = s.engine /\ raised' = s.raised
  /\ pc' = "closed"
  /\ emitted' = <<>> /\ launched' = FALSE /\ dialog' = "None" /\ ctx' = <<>>
  /\ UNCHANGED <<widget, status, time_edit, engine_cfg, auto_detect, query, config_phase>>

\* ------------------------------------------------------------ specification
\* MainWindow.__init__: the settings file read, the path auto-detected when
\* the file gives none, the board in the starting position.
Init ==
  /\ auto_detect \in {"None", "sfA"}
  /\ \E path \in LoadedPaths, ms \in LoadedTimes :
       /\ engine_cfg = [path |-> IF path # "None" THEN path ELSE auto_detect,
                        limit_time_ms |-> ms]
       /\ time_edit = <<ms>>
  /\ engine = <<>>
  /\ board = StandardBoard
  /\ selected_square = <<>>
  /\ square_highlight = <<>>
  /\ last_user_move = <<>>
  /\ last_engine_move = <<>>
  /\ status = <<"Ready.">>
  /\ pc = "idle"
  /\ query = <<>>
  /\ emitted = <<>>
  /\ raised = "None"
  /\ lastOp = <<"init">>
  /\ launched = FALSE
  /\ dialog = "None"
  /\ config_phase = "none"
  /\ ctx = <<>>

Next ==
  \/ \E sq \in ClickSquares : Click(sq)
  \/ pc = "query" /\ \E r \in PlayResults(query[1].board) : EngineReply(r)
  \/ on_new_game
  \/ on_undo
  \/ \E file \in PgnFiles : on_open_pgn(file)
  \/ OpenPgnCancel
  \/ \E text \in TimeTexts : on_time_changed(text)
  \/ \E ok \in BOOLEAN, text \in PathTexts, quit_ok \in BOOLEAN : on_set_engine_path(ok, text, quit_ok)
  \/ \E quit_ok \in BOOLEAN : closeEvent(quit_ok)

Spec == Init /\ [][Next]_vars

\* The board handlers alone, under the default time budget: clicks, engine
\* results, undo, new game, and the load of a file that holds a game.
GameFiles == {f \in PgnFiles : f.readable /\ f.game # <<>>}

InitBoard == Init /\ engine_cfg.limit_time_ms = 1000

NextBoard ==
  \/ \E sq \in ClickSquares : Click(sq)
  \/ pc = "query" /\ \E r \in PlayResults(query[1].board) : EngineReply(r)
  \/ on_new_game
  \/ on_undo
  \/ \E file \in GameFiles : on_open_pgn(file)
  \/ OpenPgnCancel

SpecBoard == InitBoard /\ [][NextBoard]_vars

\* The engine session with its configuration handlers; clicks on the king's
\* pawns' squares only (e2, e4, e7, e5).
SessionSquares == {square(4, 1), square(4, 3), square(4, 6), square(4, 4)}

NextSession ==
  \/ \E sq \in SessionSquares : Click(sq)
  \/ pc = "query" /\ \E r \in PlayResults(query[1].board) : EngineReply(r)
  \/ on_undo
  \/ \E text \in TimeTexts : on_time_changed(text)
  \/ \E ok \in BOOLEAN, text \in PathTexts, quit_ok \in BOOLEAN : on_set_engine_path(ok, text, quit_ok)
  \/ \E quit_ok \in BOOLEAN : closeEvent(quit_ok)

SpecSession == Init /\ [][NextSession]_vars

\* Every handler, under the default time budget, with clicks on the king's
\* pawns' squares and files that hold a game.
NextHandlers ==
  \/ \E sq \in SessionSquares : Click(sq)
  \/ pc = "query" /\ \E r \in PlayResults(query[1].board) : EngineReply(r)
  \/ on_new_game
  \/ on_undo
  \/ \E file \in GameFiles : on_open_pgn(file)
  \/ OpenPgnCancel
  \/ \E text \in TimeTexts : on_time_changed(text)
  \/ \E ok \in BOOLEAN, text \in PathTexts, quit_ok \in BOOLEAN : on_set_engine_path(ok, text, quit_ok)
  \/ \E quit_ok \in BOOLEAN : closeEvent(quit_ok)

SpecHandlers == InitBoard /\ [][NextHandlers]_vars

\* ------------------------------------------------------------------ claims
\* The path start() launches from: the configured one, else the detected one.
ResolvedPath == IF engine_cfg.path # "None" THEN engine_cfg.path ELSE auto_detect

\* A pawn of the side to move stands on origin and may promote on sq.
PromotionLegal(b, origin, sq) ==
  /\ b.pieces[origin] = MakePiece("P", b.turn)
  /\ MovePromo(origin, sq, "Q") \in legal_moves(b)

\* C1: with a pawn selected that may legally promote on sq, a click on sq
\* commits the queen promotion: a queen of the mover stands on sq, the history
\* is one move longer and the selection is gone.
C1_AutoQueen ==
  [][\A sq \in ClickSquares :
       (/\ selected_square # <<>>
        /\ PromotionLegal(board, selected_square[1], sq)
        /\ Click(sq))
       => (/\ board'.pieces[sq] = MakePiece("Q", board.turn)
           /\ Len(board'.move_stack) = Len(board.move_stack) + 1
           /\ selected_square' = <<>>)]_vars

\* C2: a committed move with no subprocess and no executable to resolve ends
\* with nothing raised, the status 'Engine unavailable.' and the move kept.
C2_UnavailableNotRaised ==
  (lastOp = <<"commit">> /\ ResolvedPath = "None")
    => (/\ raised = "None"
        /\ pc = "idle"
        /\ status = <<"Engine unavailable.">>
        /\ board.move_stack # <<>>
        /\ <<board.move_stack[Len(board.move_stack)]>> = emitted)

\* C3 as claimed: whenever best_move has returned Unavailable after a failed
\* query, the session holds no subprocess handle.
C3_AnyFailureDropsHandle ==
  (lastOp \in {<<"reply", "terminated">>, <<"reply", "error">>}) => engine = <<>>

\* C3 amended: the handle is dropped when the subprocess terminated during the
\* request, and kept after any other error; a best_move call made with no
\* handle that raises nothing launches a subprocess.
C3_TerminationDropsHandle ==
  [][/\ (lastOp' = <<"reply", "terminated">>) => (engine' = <<>>)
     /\ (lastOp' = <<"reply", "error">>) => (engine' = engine /\ engine' # <<>>)
     /\ (lastOp' = <<"commit">> /\ engine = <<>> /\ raised' = "None")
          => (launched' /\ engine' = <<ResolvedPath>> /\ pc' = "query")]_vars

C3_Witness ==
  /\ lastOp = <<"commit">> /\ launched /\ pc = "query"
  /\ status = <<"Engine unavailable.">>
  /\ config_phase = "none" /\ query[1].after = "none"

\* A handler can run and a square is selected: the input state Selected.
Selected == pc = "idle" /\ raised = "None" /\ selected_square # <<>>

\* C4: with origin selected, a click on sq with origin->sq legal commits that
\* very move; and a click that commits leaves the history one move longer and
\* ending with the move, the side to move flipped, the selection cleared and
\* one movePlayed event carrying the move.
C4_LegalClickCommits ==
  /\ Selected =>
       \A sq \in ClickSquares :
         Move(selected_square[1], sq) \in legal_moves(board)
           => ClickedMove(board, selected_square[1], sq) = <<Move(selected_square[1], sq)>>
  /\ (lastOp = <<"commit">>) =>
       (/\ ctx # <<>> /\ Len(emitted) = 1
        /\ emitted[1] \in legal_moves(ctx[1].pre)
        /\ board.move_stack = Append(ctx[1].pre.move_stack, emitted[1])
        /\ board.turn = Other(ctx[1].pre.turn)
        /\ selected_square = <<>>)

C4_Witness ==
  /\ lastOp = <<"commit">> /\ Len(emitted) = 1
  /\ Len(board.move_stack) = 2 /\ board.turn = WHITE

\* C5: with origin selected, a click on sq with origin->sq not legal and no
\* piece of the side to move on sq commits nothing and selects nothing; and a
\* click that cancels the selection changes nothing else: board, history, side
\* to move, markers and engine stay; no event, no query, no exception, no
\* message box.
C5_IllegalClickCancels ==
  /\ [](Selected =>
          \A sq \in ClickSquares :
            (/\ Move(selected_square[1], sq) \notin legal_moves(board)
             /\ board.pieces[sq] \notin PiecesOf(board.turn))
            => (/\ ClickedMove(board, selected_square[1], sq) = <<>>
                /\ Reselected(board, sq) = <<>>))
  /\ [][(lastOp' = <<"cancel">>)
          => (/\ selected_square # <<>> /\ selected_square' = <<>>
              /\ UNCHANGED <<board, square_highlight, last_user_move, last_engine_move,
                             status, engine, engine_cfg>>
              /\ emitted' = <<>>
              /\ pc' = "idle" /\ query' = <<>>
              /\ raised' = "None" /\ dialog' = "None")]_vars

C5_Witness ==
  /\ lastOp = <<"cancel">> /\ selected_square = <<>>
  /\ board.move_stack # <<>> /\ last_engine_move # <<>>

\* C6: undo right after a committed click gives back the board, the side to
\* move and the history of before the click.
C6_UndoRestores ==
  (ctx # <<>> /\ ctx[1].undone) => board = ctx[1].pre

C6_Witness ==
  /\ ctx # <<>> /\ ctx[1].undone /\ lastOp = <<"undo">>
  /\ board.move_stack # <<>>

\* C7: once a suggestion is handled, board, history and side to move are
\* those of right after the committed human move; the suggestion sits in the
\* last-engine-move marker and the hint, the human move in its own marker.
C7_SuggestionNotPlayed ==
  (lastOp = <<"reply", "move">>)
    => (/\ ctx # <<>> /\ Len(emitted) = 1
        /\ board = push(ctx[1].pre, emitted[1])
        /\ last_user_move = emitted
        /\ selected_square = <<>>
        /\ last_engine_move # <<>>
        /\ square_highlight = <<last_engine_move[1].to_square>>)

C7_Witness ==
  /\ lastOp = <<"reply", "move">>
  /\ Len(board.move_stack) = 2
  /\ last_engine_move # <<>> /\ is_legal(board, last_engine_move[1])

\* C8: a query issued after a path change followed by a time change runs on a
\* subprocess this very call launched, from the path now configured, with the
\* time budget now configured.
C8_LatestConfigUsed ==
  (pc = "query" /\ query[1].after = "path,time")
    => (/\ launched
        /\ query[1].path = ResolvedPath
        /\ engine = <<ResolvedPath>>
        /\ query[1].limit = engine_cfg.limit_time_ms)

C8_Witness ==
  /\ pc = "query" /\ query[1].after = "path,time"
  /\ query[1].path = "sfB" /\ query[1].limit = 500 /\ last_engine_move # <<>>
  /\ Len(board.move_stack) = 2

\* C9 as claimed: a commit sets the last-human-move marker and unsets both
\* the selection and the hint; the hint stays unset on Unavailable.
C9_CommitClearsHint ==
  (lastOp \in {<<"commit">>, <<"reply", "terminated">>, <<"reply", "error">>})
    => (/\ last_user_move = emitted /\ Len(emitted) = 1
        /\ selected_square = <<>>
        /\ square_highlight = <<>>)

\* C9 amended: a commit sets the last-human-move marker to the committed
\* move, unsets the selection and puts the hint on the move's destination
\* square, where it stays when the engine query returns Unavailable.
C9_CommitMovesHint ==
  (lastOp \in {<<"commit">>, <<"reply", "terminated">>, <<"reply", "error">>})
    => (/\ last_user_move = emitted /\ Len(emitted) = 1
        /\ emitted[1] = board.move_stack[Len(board.move_stack)]
        /\ selected_square = <<>>
        /\ square_highlight = <<emitted[1].to_square>>)

C9_Witness ==
  /\ lastOp = <<"reply", "error">>
  /\ last_engine_move # <<>>
  /\ square_highlight # <<last_engine_move[1].to_square>>

\* C10: stop() leaves no handle, whether quit() works or fails, and a second
\* stop() changes nothing and raises nothing; a closed window holds no handle.
C10_StopClearsHandle ==
  /\ \A q1, q2 \in BOOLEAN :
       LET once == stop(engine, q1)
           twice == stop(once.engine, q2)
       IN /\ once.engine = <<>>
          /\ twice.engine = once.engine
          /\ twice.raised = "None"
  /\ (lastOp = <<"close">> \/ config_phase = "path") => engine = <<>>

C10_Witness ==
  /\ lastOp = <<"close">> /\ raised = "quit failed" /\ engine = <<>>

\* The budgets on_time_changed accepts, in milliseconds.
TimeBudgets == 50..10000

\* C11: in every reachable state the configured time budget is within
\* [50, 10000] milliseconds, and so is the limit of the query engine.play is
\* serving.
C11_TimeBudgetBounded ==
  /\ engine_cfg.limit_time_ms \in TimeBudgets
  /\ (pc = "query") => (query[1].limit \in TimeBudgets)

\* C12: while engine.play has not returned, the only step is its return, which
\* ends the query; and a query starts only from a committed click made with
\* no query outstanding.
C12_OneQueryOutstanding ==
  [][/\ (pc = "query")
          => (/\ lastOp' \in {<<"reply", k>> : k \in {"move", "terminated", "error"}}
              /\ pc' = "idle" /\ query' = <<>>)
     /\ (pc' = "query")
          => (/\ pc = "idle" /\ query = <<>>
              /\ lastOp' = <<"commit">>
              /\ Len(query') = 1 /\ engine' = <<query'[1].path>>)]_vars

C12_Witness ==
  /\ pc = "query" /\ Len(board.move_stack) = 2
  /\ last_engine_move # <<>> /\ ~launched

\* C13: after 'new game' the board is the standard starting position with an
\* empty history, white to move, none of the four markers set, nothing raised
\* and no message box.
C13_NewGameResets ==
  (lastOp = <<"new_game">>)
    => (/\ board.pieces = StartPieces /\ board.turn = WHITE
        /\ board.move_stack = <<>> /\ board.stack = <<>> /\ board.ep_square = <<>>
        /\ selected_square = <<>>
        /\ square_highlight = <<>>
        /\ last_user_move = <<>>
        /\ last_engine_move = <<>>
        /\ raised = "None" /\ dialog = "None")

C13_Witness ==
  /\ lastOp = <<"new_game">> /\ engine # <<>>
  /\ status = <<"New initial position.">>

\* C14 as claimed: after a configuration change, of the path or of the time
\* budget, no subprocess handle is held, and the next query runs on a
\* subprocess launched by its own best_move call.
C14_AnyChangeStops ==
  /\ (config_phase # "none") => (engine = <<>>)
  /\ (pc = "query" /\ query[1].after # "none") => launched

\* C14 amended: after a path change no handle is held and the next query
\* launches a subprocess from the path now configured; a time change leaves
\* the handle as it is, and the next query carries the new budget as its limit,
\* on the running subprocess when there is one.
C14_PathChangeStops ==
  /\ []((config_phase \in {"path", "path,time"}) => (engine = <<>>))
  /\ []((pc = "query" /\ query[1].after \in {"path", "path,time"})
          => (launched /\ query[1].path = ResolvedPath))
  /\ []((pc = "query" /\ query[1].after \in {"time", "path,time"})
          => (query[1].limit = engine_cfg.limit_time_ms))
  /\ [][(lastOp' = <<"time_changed">>) => (engine' = engine)]_vars
  /\ [][(lastOp' = <<"commit">> /\ config_phase = "time" /\ engine # <<>>)
          => (engine' = engine /\ ~launched')]_vars

C14_Witness ==
  /\ pc = "query" /\ query[1].after = "time"
  /\ ~launched /\ query[1].limit = 500 /\ engine = <<"sfA">>

\* C15: at most one square is selected, and a selected square holds a piece
\* of the side to move.
C15_SelectionOwnPiece ==
  /\ Len(selected_square) <= 1
  /\ (selected_square # <<>>) => OwnPiece(board, selected_square[1])

\* The handlers that commit no move and handle no engine result.
OtherOps ==
  {<<"click">>, <<"cancel">>, <<"undo">>, <<"new_game">>, <<"open_pgn">>,
   <<"time_changed">>, <<"set_engine_path">>, <<"close">>}

\* C16: a committing click emits one movePlayed event and makes one best_move
\* call, on the board that already holds the move, with the last-human-move
\* marker already set; the request engine.play gets carries that board, the
\* other side to move.  Every other handler emits nothing, launches nothing
\* and leaves no request behind.
C16_CommitQueriesOnce ==
  [][/\ (lastOp' = <<"commit">>)
          => (/\ Len(emitted') = 1
              /\ board' = push(board, emitted'[1])
              /\ last_user_move' = emitted'
              /\ OnUserMoveCall(board')
              /\ (raised' = "None") => (pc' = "query")
              /\ (pc' = "query")
                   => (/\ Len(query') = 1
                       /\ query'[1].board = board'
                       /\ query'[1].board.turn = Other(board.turn)
                       /\ query'[1].limit = Limit(engine_cfg.limit_time_ms)))
     /\ (lastOp' \in OtherOps)
          => (/\ emitted' = <<>> /\ ~launched'
              /\ pc' # "query" /\ query' = <<>>
              /\ engine' \in {engine, <<>>})
     /\ (lastOp' \notin OtherOps \cup {<<"commit">>})
          => (/\ pc = "query" /\ pc' = "idle" /\ query' = <<>>
              /\ emitted' = emitted /\ board' = board)]_vars

C16_Witness ==
  /\ lastOp = <<"commit">> /\ pc = "query"
  /\ query[1].board = board /\ last_user_move = emitted
  /\ status = <<"Move undone.">>

\* C17: the load of a file whose game starts from the standard position
\* shows the position after all its moves when each is legal where it is
\* played; when one is not, it shows a message box and leaves the board, its
\* history, the markers and the status as they were.
C17_LoadChecksSequence ==
  [][\A file \in GameFiles :
       (file.game[1].setup = StandardBoard /\ on_open_pgn(file))
         => LET final == Mainline(file.game[1].setup, file.game[1].moves)
            IN IF Len(final.move_stack) = Len(file.game[1].moves)
               THEN /\ board' = final /\ dialog' = "None"
                    /\ selected_square' = <<>> /\ square_highlight' = <<>>
                    /\ last_user_move' = <<>> /\ last_engine_move' = <<>>
               ELSE /\ dialog' # "None"
                    /\ UNCHANGED <<widget, status>>]_vars

\* C18: between handlers, a set last-engine-move marker is a move legal in
\* the position on the board.
C18_EngineMarkerCurrent ==
  (pc = "idle" /\ last_engine_move # <<>>) => is_legal(board, last_engine_move[1])

\* C19: a set last-human-move marker is the most recent move of the history.
C19_UserMarkerIsLastMove ==
  (last_user_move # <<>>)
    => (/\ board.move_stack # <<>>
        /\ last_user_move[1] = board.move_stack[Len(board.move_stack)])

====
